---- MODULE Spec2Model ----
(***************************************************************************)
(* Period resolution of src/web.py: the time-of-day parser                 *)
(* _parse_hhmm_or_hhmmss, the timetable loader load_timetable, the         *)
(* resolver resolve_period_for and the timestamp normaliser normalize_ts.  *)
(*                                                                         *)
(* Texts are TLA+ strings; a character is a string of length 1.  A row of  *)
(* the TimeTable table is a record [period, start, end] whose start and    *)
(* end are texts, which is how load_timetable reads them (r["..."] handed  *)
(* to the text parser).  datetime.strptime is modelled by the regular      *)
(* expression CPython's _strptime builds for each directive, matched with  *)
(* ordered alternatives and backtracking, followed by the "unconverted     *)
(* data remains" test and the range checks of the datetime constructor.    *)
(***************************************************************************)
EXTENDS Integers, Sequences, FiniteSets, TLC

VARIABLES
    arg,         \* _parse_hhmm_or_hhmmss: the argument s
    parsed,      \* _parse_hhmm_or_hhmmss: how the call ended
    ts_input,    \* normalize_ts: the argument
    normalized,  \* normalize_ts: how the call ended
    store,       \* the rows of table TimeTable
    ts,          \* resolve_period_for: ts_dt.time() of the latest call
    ttable,      \* resolve_period_for: the local ttable of the latest call
    result,      \* resolve_period_for: how the latest call ended
    branch,      \* resolve_period_for: the return statement the call took
    calls,       \* resolve_period_for invocations so far
    loads        \* load_timetable invocations so far

vars ==
    <<arg, parsed, ts_input, normalized, store, ts, ttable, result, branch, calls, loads>>

-----------------------------------------------------------------------------
(* Text helpers: str.strip, str.replace, str.split, str.zfill, int.        *)

Digits == {"0", "1", "2", "3", "4", "5", "6", "7", "8", "9"}

DigitVal(c) ==
    CASE c = "0" -> 0 [] c = "1" -> 1 [] c = "2" -> 2 [] c = "3" -> 3
      [] c = "4" -> 4 [] c = "5" -> 5 [] c = "6" -> 6 [] c = "7" -> 7
      [] c = "8" -> 8 [] c = "9" -> 9

CharAt(s, i) == SubSeq(s, i, i)

IsSpace(c) == c = " "

IsDigitAt(s, i) == i >= 1 /\ i <= Len(s) /\ CharAt(s, i) \in Digits

RECURSIVE lstrip(_)
lstrip(s) == IF Len(s) > 0 /\ IsSpace(CharAt(s, 1)) THEN lstrip(Tail(s)) ELSE s

RECURSIVE rstrip(_)
rstrip(s) ==
    IF Len(s) > 0 /\ IsSpace(CharAt(s, Len(s)))
    THEN rstrip(SubSeq(s, 1, Len(s) - 1))
    ELSE s

strip(s) == rstrip(lstrip(s))

RECURSIVE replace_T(_)
replace_T(s) ==
    IF Len(s) = 0 THEN ""
    ELSE (IF CharAt(s, 1) = "T" THEN " " ELSE CharAt(s, 1)) \o replace_T(Tail(s))

\* s.split(":")
RECURSIVE split(_)
split(s) ==
    LET colons == {i \in 1..Len(s) : CharAt(s, i) = ":"}
        c == CHOOSE i \in colons : \A j \in colons : i <= j
    IN  IF colons = {} THEN <<s>>
        ELSE <<SubSeq(s, 1, c - 1)>> \o split(SubSeq(s, c + 1, Len(s)))

RECURSIVE Zeros(_)
Zeros(n) == IF n <= 0 THEN "" ELSE "0" \o Zeros(n - 1)

\* str.zfill(width): pads on the left with zeros, after a leading sign.
zfill(s, width) ==
    IF Len(s) >= width THEN s
    ELSE IF Len(s) > 0 /\ CharAt(s, 1) \in {"+", "-"}
         THEN CharAt(s, 1) \o Zeros(width - Len(s)) \o Tail(s)
         ELSE Zeros(width - Len(s)) \o s

\* int() of a text of digits, a leading blank allowed (the " [1-9]" day).
RECURSIVE IntOf(_)
IntOf(s) ==
    IF Len(s) = 0 THEN 0
    ELSE IF IsSpace(CharAt(s, 1)) THEN IntOf(Tail(s))
    ELSE 10 * IntOf(SubSeq(s, 1, Len(s) - 1)) + DigitVal(CharAt(s, Len(s)))

-----------------------------------------------------------------------------
(* datetime.strptime.  A format is a sequence of directives: "Y", "m",     *)
(* "d", "H", "M", "S", "f" for %Y ... %f, " " for white space in the       *)
(* format (the regular expression \s+), anything else a literal character. *)

\* The character at i is a digit with value in lo..hi.
DigitIn(s, i, lo, hi) ==
    IsDigitAt(s, i) /\ DigitVal(CharAt(s, i)) >= lo /\ DigitVal(CharAt(s, i)) <= hi

RECURSIVE SpaceRun(_, _)
SpaceRun(s, pos) ==
    IF pos <= Len(s) /\ IsSpace(CharAt(s, pos)) THEN 1 + SpaceRun(s, pos + 1) ELSE 0

RECURSIVE DigitRun(_, _)
DigitRun(s, pos) == IF IsDigitAt(s, pos) THEN 1 + DigitRun(s, pos + 1) ELSE 0

\* n, n-1, ..., 1: the lengths a greedy repetition tries, longest first.
RECURSIVE Descending(_)
Descending(n) == IF n <= 0 THEN <<>> ELSE <<n>> \o Descending(n - 1)

Min(a, b) == IF a <= b THEN a ELSE b

\* The lengths of the alternatives of directive d that match s at pos, in
\* the order the regular expression tries them.
Alternatives(s, pos, d) ==
    CASE d = "Y" ->  \* \d\d\d\d
           IF DigitRun(s, pos) >= 4 THEN <<4>> ELSE <<>>
      [] d = "m" ->  \* 1[0-2]|0[1-9]|[1-9]
           (IF \/ DigitIn(s, pos, 1, 1) /\ DigitIn(s, pos + 1, 0, 2)
               \/ DigitIn(s, pos, 0, 0) /\ DigitIn(s, pos + 1, 1, 9)
            THEN <<2>> ELSE <<>>)
           \o (IF DigitIn(s, pos, 1, 9) THEN <<1>> ELSE <<>>)
      [] d = "d" ->  \* 3[0-1]|[1-2]\d|0[1-9]|[1-9]| [1-9]
           (IF \/ DigitIn(s, pos, 3, 3) /\ DigitIn(s, pos + 1, 0, 1)
               \/ DigitIn(s, pos, 1, 2) /\ DigitIn(s, pos + 1, 0, 9)
               \/ DigitIn(s, pos, 0, 0) /\ DigitIn(s, pos + 1, 1, 9)
            THEN <<2>> ELSE <<>>)
           \o (IF DigitIn(s, pos, 1, 9) THEN <<1>> ELSE <<>>)
           \o (IF pos <= Len(s) /\ IsSpace(CharAt(s, pos)) /\ DigitIn(s, pos + 1, 1, 9)
               THEN <<2>> ELSE <<>>)
      [] d = "H" ->  \* 2[0-3]|[0-1]\d|\d
           (IF \/ DigitIn(s, pos, 2, 2) /\ DigitIn(s, pos + 1, 0, 3)
               \/ DigitIn(s, pos, 0, 1) /\ DigitIn(s, pos + 1, 0, 9)
            THEN <<2>> ELSE <<>>)
           \o (IF DigitIn(s, pos, 0, 9) THEN <<1>> ELSE <<>>)
      [] d = "M" ->  \* [0-5]\d|\d
           (IF DigitIn(s, pos, 0, 5) /\ DigitIn(s, pos + 1, 0, 9) THEN <<2>> ELSE <<>>)
           \o (IF DigitIn(s, pos, 0, 9) THEN <<1>> ELSE <<>>)
      [] d = "S" ->  \* 6[0-1]|[0-5]\d|\d
           (IF \/ DigitIn(s, pos, 6, 6) /\ DigitIn(s, pos + 1, 0, 1)
               \/ DigitIn(s, pos, 0, 5) /\ DigitIn(s, pos + 1, 0, 9)
            THEN <<2>> ELSE <<>>)
           \o (IF DigitIn(s, pos, 0, 9) THEN <<1>> ELSE <<>>)
      [] d = "f" ->  \* [0-9]{1,6}
           Descending(Min(DigitRun(s, pos), 6))
      [] d = " " ->  \* \s+
           Descending(SpaceRun(s, pos))
      [] OTHER ->    \* a literal character
           IF pos <= Len(s) /\ CharAt(s, pos) = d THEN <<1>> ELSE <<>>

\* format_regex.match(data_string): the lengths matched by the directives
\* of fmt from the k-th on, starting at pos; the first alternative whose
\* continuation matches wins.
RECURSIVE re_match(_, _, _, _)
RECURSIVE TryAlternatives(_, _, _, _, _, _)
re_match(s, pos, fmt, k) ==
    IF k > Len(fmt) THEN [ok |-> TRUE, lens |-> <<>>]
    ELSE TryAlternatives(s, pos, fmt, k, Alternatives(s, pos, fmt[k]), 1)

TryAlternatives(s, pos, fmt, k, alts, j) ==
    IF j > Len(alts) THEN [ok |-> FALSE, lens |-> <<>>]
    ELSE LET r == re_match(s, pos + alts[j], fmt, k + 1)
         IN  IF r.ok THEN [ok |-> TRUE, lens |-> <<alts[j]>> \o r.lens]
             ELSE TryAlternatives(s, pos, fmt, k, alts, j + 1)

RECURSIVE SumTo(_, _)
SumTo(lens, k) == IF k <= 0 THEN 0 ELSE lens[k] + SumTo(lens, k - 1)

\* found_dict[d]: the text directive d matched, "" when d is not in fmt.
Found(s, fmt, lens, d) ==
    IF \E k \in 1..Len(fmt) : fmt[k] = d
    THEN LET k == CHOOSE k \in 1..Len(fmt) : fmt[k] = d
         IN  SubSeq(s, SumTo(lens, k - 1) + 1, SumTo(lens, k))
    ELSE ""

IsLeap(y) == (y % 4 = 0) /\ ((y % 100 # 0) \/ (y % 400 = 0))

DaysInMonth(y, m) ==
    IF m = 2 THEN (IF IsLeap(y) THEN 29 ELSE 28)
    ELSE IF m \in {4, 6, 9, 11} THEN 30 ELSE 31

NoDateTime ==
    [year |-> 0, month |-> 0, day |-> 0, hour |-> 0, minute |-> 0, second |-> 0,
     microsecond |-> 0]

\* int(found_dict[d]), or the default of a directive fmt does not have.
FieldValue(s, fmt, lens, d, default) ==
    IF \E k \in 1..Len(fmt) : fmt[k] = d THEN IntOf(Found(s, fmt, lens, d)) ELSE default

\* %f: the digits found, padded on the right to six.
Fraction(frac) == IF frac = "" THEN 0 ELSE IntOf(frac \o Zeros(6 - Len(frac)))

\* The fields of the datetime that strptime builds from a match.
Fields(s, fmt, lens) ==
    [year        |-> FieldValue(s, fmt, lens, "Y", 1900),
     month       |-> FieldValue(s, fmt, lens, "m", 1),
     day         |-> FieldValue(s, fmt, lens, "d", 1),
     hour        |-> FieldValue(s, fmt, lens, "H", 0),
     minute      |-> FieldValue(s, fmt, lens, "M", 0),
     second      |-> FieldValue(s, fmt, lens, "S", 0),
     microsecond |-> Fraction(Found(s, fmt, lens, "f"))]

\* datetime(...) of the fields: ValueError when out of range.
MakeDateTime(dt) ==
    IF dt.year < 1 \/ dt.day > DaysInMonth(dt.year, dt.month) \/ dt.second > 59
    THEN [ok |-> FALSE, dt |-> NoDateTime]
    ELSE [ok |-> TRUE, dt |-> dt]

\* What strptime makes of the match m of fmt on s.
Converted(s, fmt, m) ==
    IF ~m.ok THEN [ok |-> FALSE, dt |-> NoDateTime]              \* does not match format
    ELSE IF SumTo(m.lens, Len(fmt)) # Len(s)
         THEN [ok |-> FALSE, dt |-> NoDateTime]                  \* unconverted data remains
    ELSE MakeDateTime(Fields(s, fmt, m.lens))

\* datetime.strptime(s, fmt): [ok |-> FALSE] stands for ValueError.
strptime(s, fmt) == Converted(s, fmt, re_match(s, 1, fmt, 1))

\* datetime.time()
TimeOf(dt) == [hour |-> dt.hour, minute |-> dt.minute, second |-> dt.second]

-----------------------------------------------------------------------------
(* _parse_hhmm_or_hhmmss                                                   *)

NoTime == [hour |-> 0, minute |-> 0, second |-> 0]

\* An argument is a text or None.
NoneArg == [absent |-> TRUE, text |-> ""]
TextArg(s) == [absent |-> FALSE, text |-> s]

FmtHM == <<"H", ":", "M">>
FmtHMS == <<"H", ":", "M", ":", "S">>

\* return datetime.strptime(...).time(), or the ValueError it raises.
TimeOrError(r) ==
    IF r.ok THEN [kind |-> "time", value |-> TimeOf(r.dt)]
    ELSE [kind |-> "ValueError", value |-> NoTime]

\* Lines 102-107 on parts = s.split(":"): pad both parts and parse again.
Padded2(parts) ==
    IF Len(parts) = 2
    THEN TimeOrError(strptime(zfill(parts[1], 2) \o ":" \o zfill(parts[2], 2), FmtHM))
    ELSE [kind |-> "ValueError", value |-> NoTime]

\* The fallback of lines 101-107.
ZfillFallback(s) == Padded2(split(s))

\* Lines 96-107 on the outcomes r1 and r2 of the two formats.
FirstFormat(s, r1, r2) ==
    IF r1.ok THEN TimeOrError(r1)
    ELSE IF r2.ok THEN TimeOrError(r2)
    ELSE ZfillFallback(s)

\* Lines 96-107 on the stripped text.
ParseStripped(s) == FirstFormat(s, strptime(s, FmtHM), strptime(s, FmtHMS))

_parse_hhmm_or_hhmmss(a) == ParseStripped(strip(IF a.absent THEN "" ELSE a.text))

-----------------------------------------------------------------------------
(* load_timetable and resolve_period_for                                   *)

\* datetime.time ordering: by hour, then minute, then second.
TimeLT(a, b) ==
    \/ a.hour < b.hour
    \/ a.hour = b.hour /\ a.minute < b.minute
    \/ a.hour = b.hour /\ a.minute = b.minute /\ a.second < b.second

TimeLE(a, b) == a = b \/ TimeLT(a, b)

\* SELECT ... FROM TimeTable ORDER BY period: every ordering of the rows
\* that ascends by period (the order among equal periods is the database's).
FetchAll(table) ==
    LET n == Cardinality(table)
    IN  {rows \in [1..n -> table] :
            /\ \A i, j \in 1..n : i # j => rows[i] # rows[j]
            /\ \A i, j \in 1..n : i < j => rows[i].period <= rows[j].period}

\* Texts of table TimeTable: five times of day in the accepted shapes and
\* one text the parser rejects.
GridTexts == <<"8:50", "10:30", "10:35:00", "12:15", " 13:00">>
BadText == "25:99"
StoreTexts == {GridTexts[i] : i \in DOMAIN GridTexts} \cup {BadText}

\* _parse_hhmm_or_hhmmss on each text of the table, evaluated once.
ParseOf == [x \in StoreTexts |-> _parse_hhmm_or_hhmmss(TextArg(x))]

\* Lines 130-134: the record of a row, ok FALSE when a parse raised.
Record(period, start_t, end_t) ==
    [ok  |-> start_t.kind = "time" /\ end_t.kind = "time",
     rec |-> [period |-> period, start |-> start_t.value, end |-> end_t.value]]

\* Lines 128-134 for one row.
LoadRow(r) == Record(r.period, ParseOf[r.start], ParseOf[r.end])

\* The list the loop of lines 127-134 builds, or its ValueError.
Collected(loaded) ==
    IF \A k \in 1..Len(loaded) : loaded[k].ok
    THEN [ok |-> TRUE, value |-> [k \in 1..Len(loaded) |-> loaded[k].rec]]
    ELSE [ok |-> FALSE, value |-> <<>>]

\* The rows that parse, the others dropped.
Kept(loaded) ==
    [ok |-> TRUE,
     value |-> [k \in 1..Len(SelectSeq(loaded, LAMBDA l : l.ok))
                    |-> SelectSeq(loaded, LAMBDA l : l.ok)[k].rec]]

\* A variant that keeps the table of the previous call when there is one.
load_timetable_cached(rows) ==
    IF ttable # <<>> THEN [ok |-> TRUE, value |-> ttable]
    ELSE Collected([k \in 1..Len(rows) |-> LoadRow(rows[k])])

\* A variant that skips the rows the parser rejects.
load_timetable_skipping(rows) == Kept([k \in 1..Len(rows) |-> LoadRow(rows[k])])

\* rows are the fetched rows; [ok |-> FALSE] stands for the parser's
\* ValueError leaving the loop of lines 127-134.
load_timetable(rows) == Collected([k \in 1..Len(rows) |-> LoadRow(rows[k])])

NoRec == [period |-> 0, start |-> NoTime, end |-> NoTime]

Pending == [kind |-> "pending", rec |-> NoRec]
ReturnNone == [kind |-> "None", rec |-> NoRec]
Return(rec) == [kind |-> "rec", rec |-> rec]
Raise(e) == [kind |-> e, rec |-> NoRec]

\* A variant with the start excluded.
ContainsOpenStart(rec, t) == TimeLT(rec.start, t) /\ TimeLT(t, rec.end)

\* A variant with the end included.
ContainsClosedEnd(rec, t) == TimeLE(rec.start, t) /\ TimeLE(t, rec.end)

\* line 144: rec["start"] <= t < rec["end"]
Contains(rec, t) == TimeLE(rec.start, t) /\ TimeLT(t, rec.end)

\* A variant that never takes the empty-table return.
IsEmptyNever(tt) == FALSE

\* line 139: not ttable
IsEmpty(tt) == tt = <<>>

\* A variant that returns the other end of the table.
BeforeFirstLast(tt) == tt[Len(tt)]

\* line 150: return first_rec
BeforeFirst(tt) == tt[1]

\* A variant that returns the other end of the table.
AfterLastFirst(tt) == tt[1]

\* line 152: return last_rec
AfterLast(tt) == tt[Len(tt)]

\* A variant whose gap is open at the end of the earlier interval.
InGapOfStrict(tt, i, t) == TimeLT(tt[i].end, t) /\ TimeLT(t, tt[i + 1].start)

\* line 154: ttable[i]["end"] <= t < ttable[i+1]["start"]
InGapOf(tt, i, t) == TimeLE(tt[i].end, t) /\ TimeLT(t, tt[i + 1].start)

\* A variant that attributes a gap to the period that just ended.
GapPickPrevious(tt, i) == tt[i]

\* line 155: return ttable[i+1]
GapPick(tt, i) == tt[i + 1]

\* Lines 143-156 on a loaded, non-empty table.
Scan(tt, t) ==
    LET n == Len(tt)
        hits == {k \in 1..n : Contains(tt[k], t)}
        gaps == {i \in 1..(n - 1) : InGapOf(tt, i, t)}
        least(S) == CHOOSE k \in S : \A j \in S : k <= j
    IN  IF hits # {} THEN [result |-> Return(tt[least(hits)]), branch |-> "contain"]
        ELSE IF TimeLT(t, tt[1].start)
             THEN [result |-> Return(BeforeFirst(tt)), branch |-> "before"]
        ELSE IF TimeLE(tt[n].end, t)
             THEN [result |-> Return(AfterLast(tt)), branch |-> "after"]
        ELSE IF gaps # {}
             THEN [result |-> Return(GapPick(tt, least(gaps))), branch |-> "gap"]
        ELSE [result |-> Return(tt[n]), branch |-> "fallback"]

\* Lines 139-156 on the outcome l of load_timetable.  An empty table
\* indexed at [0] raises IndexError, which line 139 forestalls.
Resolved(l, t) ==
    IF ~l.ok
    THEN [result |-> Raise("ValueError"), branch |-> "raise", ttable |-> <<>>]
    ELSE IF IsEmpty(l.value)
         THEN [result |-> ReturnNone, branch |-> "empty", ttable |-> l.value]
    ELSE IF l.value = <<>>
         THEN [result |-> Raise("IndexError"), branch |-> "raise", ttable |-> l.value]
    ELSE [ttable |-> l.value] @@ Scan(l.value, t)

\* resolve_period_for on the fetched rows and t = ts_dt.time().
resolve_period_for(rows, t) == Resolved(load_timetable(rows), t)

-----------------------------------------------------------------------------
(* normalize_ts                                                            *)

DigitChar(n) ==
    CASE n = 0 -> "0" [] n = 1 -> "1" [] n = 2 -> "2" [] n = 3 -> "3"
      [] n = 4 -> "4" [] n = 5 -> "5" [] n = 6 -> "6" [] n = 7 -> "7"
      [] n = 8 -> "8" [] n = 9 -> "9"

\* str(n) for n >= 0
RECURSIVE ToStr(_)
ToStr(n) == IF n < 10 THEN DigitChar(n) ELSE ToStr(n \div 10) \o DigitChar(n % 10)

\* n written on at least w digits.
Padded(n, w) == Zeros(w - Len(ToStr(n))) \o ToStr(n)

\* dt.strftime("%Y-%m-%d %H:%M:%S").  The C library writes %Y: padYear
\* says whether it pads a year below 1000 to four digits (it differs
\* between platforms and interpreter versions).
strftime(dt, padYear) ==
    (IF padYear THEN Padded(dt.year, 4) ELSE ToStr(dt.year))
    \o "-" \o Padded(dt.month, 2) \o "-" \o Padded(dt.day, 2)
    \o " " \o Padded(dt.hour, 2) \o ":" \o Padded(dt.minute, 2)
    \o ":" \o Padded(dt.second, 2)

FmtMinute == <<"Y", "-", "m", "-", "d", " ", "H", ":", "M">>
FmtSecond == <<"Y", "-", "m", "-", "d", " ", "H", ":", "M", ":", "S">>
FmtFraction == <<"Y", "-", "m", "-", "d", " ", "H", ":", "M", ":", "S", ".", "f">>

\* line 163
fmts == <<FmtMinute, FmtSecond, FmtFraction>>

NormPending == [kind |-> "pending", text |-> ""]
NormNone == [kind |-> "None", text |-> ""]

\* Lines 166-167 on the outcome r of strptime: the text returned, or the
\* ValueError raised.
Formatted(r, padYear) ==
    IF r.ok THEN [kind |-> "str", text |-> strftime(r.dt, padYear)]
    ELSE [kind |-> "ValueError", text |-> ""]

\* The body of the try of lines 165-167 for one format.
TryFormat(s, f, padYear) == Formatted(strptime(s, f), padYear)

\* The loop of lines 164-169 with the except of the last format missing.
UnguardedLoop(s, r1, r2, padYear) ==
    IF r1.kind = "str" THEN r1
    ELSE IF r2.kind = "str" THEN r2
    ELSE TryFormat(s, fmts[3], padYear)

\* A variant whose last attempt is not guarded by except.
normalize_ts_unguarded(a, padYear) ==
    IF a.absent \/ a.text = "" THEN NormNone
    ELSE UnguardedLoop(replace_T(strip(a.text)),
                       TryFormat(replace_T(strip(a.text)), fmts[1], padYear),
                       TryFormat(replace_T(strip(a.text)), fmts[2], padYear), padYear)

\* Lines 164-170 on s: the first format that converts decides.
FormatLoop(s, tried, padYear) ==
    IF tried = {} THEN NormNone
    ELSE TryFormat(s, fmts[CHOOSE k \in tried : \A j \in tried : k <= j], padYear)

\* The formats, by index, under which strptime converts s.
Converting(s) == {k \in 1..Len(fmts) : strptime(s, fmts[k]).ok}

normalize_ts(a, padYear) ==
    IF a.absent \/ a.text = "" THEN NormNone
    ELSE FormatLoop(replace_T(strip(a.text)), Converting(replace_T(strip(a.text))), padYear)

-----------------------------------------------------------------------------
(* Bounds and input sets                                                   *)

\* Longest text handed to _parse_hhmm_or_hhmmss.
MaxLen == 5

\* Most rows in table TimeTable.
MaxRows == 3

\* Most calls of resolve_period_for in one behaviour.
MaxCalls == 3

ParseAlphabet == {"0", "2", "5", "6", "9", ":", " ", "x"}

RECURSIVE TextsUpTo(_)
TextsUpTo(n) ==
    IF n = 0 THEN {""}
    ELSE TextsUpTo(n - 1) \cup {s \o c : s \in TextsUpTo(n - 1), c \in ParseAlphabet}

\* The arguments of _parse_hhmm_or_hhmmss: None and the texts of at most n
\* characters.
ParseArgs(n) == {NoneArg} \cup {TextArg(s) : s \in TextsUpTo(n)}

\* The period numbers of the tables resolved: 1..MaxRows.
Periods == 1..MaxRows

\* start and end of a row: the four intervals between neighbouring grid
\* times and one across two of them, an empty and a reversed interval, and
\* rows with a rejected start or a rejected end.
RowTexts ==
    {<<GridTexts[1], GridTexts[2]>>, <<GridTexts[2], GridTexts[3]>>,
     <<GridTexts[3], GridTexts[4]>>, <<GridTexts[4], GridTexts[5]>>,
     <<GridTexts[2], GridTexts[4]>>,
     <<GridTexts[2], GridTexts[2]>>, <<GridTexts[4], GridTexts[1]>>,
     <<BadText, GridTexts[2]>>, <<GridTexts[1], BadText>>}

NoRow == <<>>

\* The tables with at most one row for each period number.
Tables ==
    {{[period |-> p, start |-> f[p][1], end |-> f[p][2]] : p \in {q \in Periods : f[q] # NoRow}} :
        f \in [Periods -> RowTexts \cup {NoRow}]}

Time(h, m, s) == [hour |-> h, minute |-> m, second |-> s]

\* Times of day of a call: before, on, between and after the grid times.
Times ==
    {Time(8, 0, 0), Time(8, 50, 0), Time(10, 29, 59), Time(10, 30, 0), Time(10, 32, 0),
     Time(10, 35, 0), Time(11, 0, 0), Time(12, 15, 0), Time(12, 30, 0), Time(13, 0, 0),
     Time(15, 0, 0)}

\* Times of day of the calls made while rows are inserted.
StoreTimes == {Time(8, 0, 0), Time(10, 30, 0), Time(10, 32, 0), Time(15, 0, 0)}

\* Rows inserted while calls go on.
InsertedRows ==
    {[period |-> p, start |-> x[1], end |-> x[2]] :
        p \in {1, 2},
        x \in {<<"8:50", "10:30">>, <<"10:35:00", "12:15">>, <<BadText, "10:30">>}}

\* Arguments of normalize_ts: lead, date, separator, time, trail.
NormDates ==
    {"2025-04-08", "2025-4-8", "2024-02-29", "2025-02-29", "0999-01-02", "0000-01-01",
     "2025-13-01", "2025-04- 8", "not-a-date", ""}
NormSeparators == {" ", "T", "  ", "T ", ""}
NormTimes ==
    {"08:50", "8:5", "08:50:00", "23:59:59", "08:50:60", "08:50:00.123456", "08:50:7.5",
     "08:50:00.1234567", "08:50:00.", "25:99", ""}
NormBlanks == {"", " "}

NormArgs ==
    {NoneArg} \cup
    {TextArg(l \o d \o p \o t \o r) :
        l \in NormBlanks, d \in NormDates, p \in NormSeparators, t \in NormTimes,
        r \in NormBlanks}

-----------------------------------------------------------------------------
(* Actions                                                                 *)

parseVars == <<arg, parsed>>
normVars == <<ts_input, normalized>>
callVars == <<ts, ttable, result, branch, calls, loads>>

ParseIdle == arg = NoneArg /\ parsed = [kind |-> "pending", value |-> NoTime]
NormIdle == ts_input = NoneArg /\ normalized = NormPending
CallIdle ==
    /\ ts = NoTime /\ ttable = <<>> /\ result = Pending /\ branch = "none"
    /\ calls = 0 /\ loads = 0

\* One call of _parse_hhmm_or_hhmmss(arg).
Parse ==
    /\ parsed.kind = "pending"
    /\ parsed' = _parse_hhmm_or_hhmmss(arg)
    /\ UNCHANGED <<arg, normVars, store, callVars>>

\* One call of normalize_ts(ts_input).
Normalize ==
    /\ normalized.kind = "pending"
    /\ \E padYear \in BOOLEAN : normalized' = normalize_ts(ts_input, padYear)
    /\ UNCHANGED <<ts_input, parseVars, store, callVars>>

\* One call of resolve_period_for(ts_dt) with ts_dt.time() = t: line 138
\* loads the table, once, and lines 139-156 pick the period.
Call(t) ==
    /\ calls < MaxCalls
    /\ \E rows \in FetchAll(store) :
        \E r \in {resolve_period_for(rows, t)} :
            /\ ts' = t
            /\ calls' = calls + 1
            /\ loads' = loads + 1
            /\ ttable' = r.ttable
            /\ result' = r.result
            /\ branch' = r.branch
            /\ UNCHANGED <<store, parseVars, normVars>>

\* The call of a behaviour that makes one call.
FirstCall(t) == calls = 0 /\ Call(t)

\* A row is added to table TimeTable.
InsertRow(r) ==
    /\ Cardinality(store) < MaxRows
    /\ r \notin store
    /\ store' = store \cup {r}
    /\ UNCHANGED <<callVars, parseVars, normVars>>

-----------------------------------------------------------------------------
(* Specifications                                                          *)

\* resolve_period_for, called once, over every table of Tables.
Init == store \in Tables /\ CallIdle /\ ParseIdle /\ NormIdle
Next == \E t \in Times : FirstCall(t)
Spec == Init /\ [][Next]_vars

\* resolve_period_for while rows are added to the table.
InitStore == store = {} /\ CallIdle /\ ParseIdle /\ NormIdle
NextStore ==
    \/ \E r \in InsertedRows : InsertRow(r)
    \/ \E t \in StoreTimes : Call(t)
SpecStore == InitStore /\ [][NextStore]_vars

\* _parse_hhmm_or_hhmmss over every text of at most MaxLen characters.
InitParse ==
    /\ arg \in ParseArgs(MaxLen)
    /\ parsed = [kind |-> "pending", value |-> NoTime]
    /\ store = {} /\ CallIdle /\ NormIdle
NextParse == Parse
SpecParse == InitParse /\ [][NextParse]_vars

\* normalize_ts over the composed arguments.
InitNormalize ==
    /\ ts_input \in NormArgs
    /\ normalized = NormPending
    /\ store = {} /\ CallIdle /\ ParseIdle
NextNormalize == Normalize
SpecNormalize == InitNormalize /\ [][NextNormalize]_vars

-----------------------------------------------------------------------------
(* Properties                                                              *)

\* A call of resolve_period_for has returned or raised.
Called == calls > 0

\* The loaded table is well-formed: each start before its end, and each
\* interval ends no later than the next starts, in ascending period order.
WellFormed(tt) ==
    /\ \A k \in 1..Len(tt) : TimeLT(tt[k].start, tt[k].end)
    /\ \A k \in 1..(Len(tt) - 1) :
        /\ TimeLE(tt[k].end, tt[k + 1].start)
        /\ tt[k].period <= tt[k + 1].period

\* C1: on a well-formed table, a time t with start_i <= t < end_i resolves
\* to interval i.
C1_Containment ==
    (Called /\ WellFormed(ttable)) =>
        \A i \in 1..Len(ttable) :
            (TimeLE(ttable[i].start, ts) /\ TimeLT(ts, ttable[i].end))
                => result = Return(ttable[i])

\* t lies on the start of the first of three well-formed intervals.
C1_Witness ==
    /\ Called /\ WellFormed(ttable) /\ Len(ttable) = 3
    /\ ts = ttable[1].start
    /\ result = Return(ttable[1])

\* C2: on a well-formed table, a time t equal to end_i of an interval with
\* a successor resolves to interval i+1 and not to interval i, whether
\* interval i+1 starts at end_i or later.
C2_BoundaryToNext ==
    (Called /\ WellFormed(ttable)) =>
        \A i \in 1..(Len(ttable) - 1) :
            ts = ttable[i].end
                => result = Return(ttable[i + 1]) /\ result # Return(ttable[i])

\* t is the end of interval 1 of three, interval 2 starts there, and a gap
\* follows interval 2.
C2_Witness ==
    /\ Called /\ WellFormed(ttable) /\ Len(ttable) = 3
    /\ ts = ttable[1].end /\ ttable[2].start = ttable[1].end
    /\ TimeLT(ttable[2].end, ttable[3].start)
    /\ result = Return(ttable[2])

\* C3: on a well-formed table, a time t strictly between end_i and
\* start_{i+1} resolves to interval i+1.
C3_GapToNext ==
    (Called /\ WellFormed(ttable)) =>
        \A i \in 1..(Len(ttable) - 1) :
            (TimeLT(ttable[i].end, ts) /\ TimeLT(ts, ttable[i + 1].start))
                => result = Return(ttable[i + 1])

\* t lies in the gap between intervals 2 and 3 of three.
C3_Witness ==
    /\ Called /\ WellFormed(ttable) /\ Len(ttable) = 3
    /\ TimeLT(ttable[2].end, ts) /\ TimeLT(ts, ttable[3].start)
    /\ result = Return(ttable[3]) /\ branch = "gap"

\* C4: on a non-empty well-formed table, a time t before the first start
\* resolves to the first interval.
C4_BeforeFirst ==
    (Called /\ WellFormed(ttable) /\ ttable # <<>>) =>
        (TimeLT(ts, ttable[1].start) => result = Return(ttable[1]))

\* t precedes the first of at least two well-formed intervals.
C4_Witness ==
    /\ Called /\ WellFormed(ttable) /\ Len(ttable) >= 2
    /\ TimeLT(ts, ttable[1].start)
    /\ result = Return(ttable[1]) /\ branch = "before"

\* C5: on a non-empty well-formed table, a time t at or after the last end
\* resolves to the last interval.
C5_AfterLast ==
    (Called /\ WellFormed(ttable) /\ ttable # <<>>) =>
        (TimeLE(ttable[Len(ttable)].end, ts) => result = Return(ttable[Len(ttable)]))

\* t is exactly the end of the last of at least two well-formed intervals.
C5_Witness ==
    /\ Called /\ WellFormed(ttable) /\ Len(ttable) >= 2
    /\ ts = ttable[Len(ttable)].end
    /\ result = Return(ttable[Len(ttable)]) /\ branch = "after"

\* C6: the result is None exactly when the table is empty; when the table
\* is not empty and all its rows parse, the result is one of its intervals.
C6_NoneIffEmpty ==
    Called =>
        /\ store = {} => result = ReturnNone
        /\ result = ReturnNone => store = {}
        /\ (store # {} /\ \A r \in store : LoadRow(r).ok) =>
               /\ result.kind = "rec"
               /\ \E r \in store : result.rec = LoadRow(r).rec

\* The call on the empty table has returned None.
C6_Witness == Called /\ store = {} /\ result = ReturnNone /\ branch = "empty"

\* C7: when a row of the table has a start or an end the parser rejects,
\* the call ends with the parser's ValueError, whatever t is.
C7_MalformedRowRaises ==
    (Called /\ \E r \in store : ~LoadRow(r).ok) => result = Raise("ValueError")

\* The rejected text is in a later row and t lies inside an earlier row
\* that parses.
C7_Witness ==
    /\ Called /\ result = Raise("ValueError")
    /\ \E r, q \in store :
        /\ ~LoadRow(r).ok /\ LoadRow(q).ok /\ q.period < r.period
        /\ TimeLE(LoadRow(q).rec.start, ts) /\ TimeLT(ts, LoadRow(q).rec.end)

\* What a call must yield on table st: the ValueError when a row is
\* rejected, None when st is empty, and otherwise a loaded table made of
\* the rows of st and one of them as the result.
Fresh(st, res, tt) ==
    IF \E r \in st : ~LoadRow(r).ok THEN res = Raise("ValueError")
    ELSE IF st = {} THEN res = ReturnNone
    ELSE /\ Len(tt) = Cardinality(st)
         /\ {tt[k] : k \in 1..Len(tt)} = {LoadRow(r).rec : r \in st}
         /\ res.kind = "rec"
         /\ \E k \in 1..Len(tt) : res.rec = tt[k]

\* C8: every call loads the table once, and what it returns comes from the
\* rows the table holds at that call, whatever earlier calls loaded.
C8_LoadedFreshOnce ==
    [][(calls' = calls + 1) => (loads' = loads + 1 /\ Fresh(store, result', ttable'))]_vars

\* A second or later call has returned an interval of a table of two rows.
C8_Witness ==
    /\ calls >= 2 /\ loads = calls
    /\ Cardinality(store) = 2 /\ Len(ttable) = 2
    /\ result.kind = "rec"

\* A text (already stripped) of the shape hour:minute or
\* hour:minute:second: one or two digits each, hour up to 23, minute and
\* second up to 59.
FieldIn(f, hi) ==
    /\ Len(f) \in {1, 2}
    /\ \A i \in 1..Len(f) : CharAt(f, i) \in Digits
    /\ IntOf(f) <= hi

ValidTimeText(s) ==
    LET parts == split(s)
    IN  /\ Len(parts) \in {2, 3}
        /\ FieldIn(parts[1], 23)
        /\ FieldIn(parts[2], 59)
        /\ Len(parts) = 3 => FieldIn(parts[3], 59)

\* C9: _parse_hhmm_or_hhmmss fails with ValueError on every argument that,
\* once stripped, is not an hour:minute or hour:minute:second text, None
\* and the empty text included.
C9_RejectsInvalid ==
    (parsed.kind # "pending" /\ ~ValidTimeText(strip(IF arg.absent THEN "" ELSE arg.text)))
        => parsed.kind = "ValueError"

\* C10: normalize_ts raises nothing; it returns None on an absent or empty
\* argument and on a text that none of the three formats matches.
C10_SoftFail ==
    normalized.kind # "pending" =>
        /\ normalized.kind \in {"None", "str"}
        /\ (ts_input.absent \/ ts_input.text = "") => normalized = NormNone
        /\ (\A k \in 1..Len(fmts) :
                ~strptime(replace_T(strip(ts_input.text)), fmts[k]).ok)
               => normalized = NormNone

\* A text no format matches has been answered with None.
C10_Witness == ts_input = TextArg("not-a-date") /\ normalized = NormNone

\* The text has the shape YYYY-MM-DD HH:MM:SS.
CanonicalShape(x) ==
    /\ Len(x) = 19
    /\ \A i \in 1..19 :
        IF i \in {5, 8} THEN CharAt(x, i) = "-"
        ELSE IF i = 11 THEN CharAt(x, i) = " "
        ELSE IF i \in {14, 17} THEN CharAt(x, i) = ":"
        ELSE CharAt(x, i) \in Digits

\* The date and time a canonical text x states are those of dt, the
\* fraction of a second left out.
StatesDateTime(x, dt) ==
    /\ IntOf(SubSeq(x, 1, 4)) = dt.year
    /\ IntOf(SubSeq(x, 6, 7)) = dt.month
    /\ IntOf(SubSeq(x, 9, 10)) = dt.day
    /\ IntOf(SubSeq(x, 12, 13)) = dt.hour
    /\ IntOf(SubSeq(x, 15, 16)) = dt.minute
    /\ IntOf(SubSeq(x, 18, 19)) = dt.second

\* The date and time of the argument of normalize_ts: what the first of
\* the formats that converts it reads, "T" taken as a blank.
InputDateTime(text) ==
    strptime(replace_T(strip(text)),
             fmts[CHOOSE k \in Converting(replace_T(strip(text))) :
                     \A j \in Converting(replace_T(strip(text))) : k <= j]).dt

\* C11: a text returned by normalize_ts has the shape YYYY-MM-DD HH:MM:SS
\* and states the date and time of the argument as the first converting
\* format reads it: seconds 00 when the argument has none, the fraction
\* dropped, "T" read as a blank.
C11_CanonicalForm ==
    normalized.kind = "str" =>
        /\ CanonicalShape(normalized.text)
        /\ StatesDateTime(normalized.text, InputDateTime(ts_input.text))

\* C12: on a non-empty well-formed table every time is settled by
\* containment, before-first, after-last or the gap rule; the closing
\* "return last_rec" of line 156 is not reached.
C12_NoFallback ==
    (Called /\ WellFormed(ttable) /\ ttable # <<>>) =>
        /\ branch \in {"contain", "before", "after", "gap"}
        /\ branch # "fallback"

\* t is the end of interval 1 and interval 2 starts later: no interval
\* contains t, t is neither before the first start nor at or after the
\* last end, and the gap rule settles it.
C12_Witness ==
    /\ Called /\ WellFormed(ttable) /\ Len(ttable) >= 2
    /\ ts = ttable[1].end /\ TimeLT(ts, ttable[2].start)
    /\ branch = "gap" /\ result = Return(ttable[2])

\* The period number resolve_period_for returns at time t on the loaded
\* table tt.
PeriodAt(tt, t) == Scan(tt, t).result.rec.period

\* C13: on a non-empty well-formed table the resolved period is monotone
\* in time: a time at or after the time of the call resolves to a period
\* number no smaller than the one returned, a time at or before it to one
\* no larger.
C13_Monotone ==
    (Called /\ WellFormed(ttable) /\ ttable # <<>>) =>
        /\ result.kind = "rec"
        /\ \A t2 \in Times :
            /\ TimeLE(ts, t2) => result.rec.period <= PeriodAt(ttable, t2)
            /\ TimeLE(t2, ts) => PeriodAt(ttable, t2) <= result.rec.period

\* On a table of three intervals the call is resolved to the second, an
\* earlier time resolves to the first and a later time to the third.
C13_Witness ==
    /\ Called /\ WellFormed(ttable) /\ Len(ttable) = 3
    /\ result = Return(ttable[2])
    /\ \E t1, t2 \in Times :
        /\ TimeLT(t1, ts) /\ TimeLT(ts, t2)
        /\ PeriodAt(ttable, t1) = ttable[1].period
        /\ PeriodAt(ttable, t2) = ttable[3].period
        /\ ttable[1].period < ttable[2].period
        /\ ttable[2].period < ttable[3].period

=============================================================================
